---------------------------- MODULE Spec2Model ----------------------------
(***************************************************************************)
(* Device-synchronization subsystem of the Signal Over Noise to-do app:    *)
(* credential derivation (lib/sync), the Setup, Login, Pull and Push       *)
(* route handlers, and the blob store they read and write.                 *)
(*                                                                         *)
(* Strings are sequences of one-character strings, so that toUpperCase,    *)
(* trim, startsWith and concatenation are computed as the code computes    *)
(* them.  A JSON object is a function from its field names to its values;  *)
(* a field the sender left out (undefined) is a name outside the DOMAIN.   *)
(* A nullable object (timerState) is << >> for null and <<obj>> otherwise. *)
(***************************************************************************)
EXTENDS Integers, Sequences, FiniteSets, TLC

(***************************************************************************)
(* Bounds of the model.                                                    *)
(***************************************************************************)
\* Date.now() ranges over 1..MaxTime.
MaxTime == 2
\* Requests the server can have between their reads and their put().
MaxInFlight == 2
\* User actions on the device (edits, Setup, Login, Disconnect, reload).
MaxEvents == 3
\* Length of a digest in the model; no preimage is longer.
DigestLen == 20
\* Number of Setup requests that reach the store.
MaxSetups == 1
\* Length of the longest strings given to constantTimeCompare on its own.
MaxStrLen == 3

(***************************************************************************)
(* String helpers (JavaScript String methods used by the handlers).        *)
(***************************************************************************)
LowerChars == <<"a","b","c","d","e","f","g","h","i","j","k","l","m",
                "n","o","p","q","r","s","t","u","v","w","x","y","z">>
UpperChars == <<"A","B","C","D","E","F","G","H","I","J","K","L","M",
                "N","O","P","Q","R","S","T","U","V","W","X","Y","Z">>
Digits == {"0","1","2","3","4","5","6","7","8","9"}
Whitespace == {" ", "\t", "\n"}

\* Each lower-case letter's upper-case letter, and the reverse.
UpperMap ==
    [ch \in {LowerChars[k] : k \in 1..Len(LowerChars)} |->
        UpperChars[CHOOSE k \in 1..Len(LowerChars) : LowerChars[k] = ch]]
LowerMap ==
    [ch \in {UpperChars[k] : k \in 1..Len(UpperChars)} |->
        LowerChars[CHOOSE k \in 1..Len(UpperChars) : UpperChars[k] = ch]]

UpperOf(ch) == IF ch \in DOMAIN UpperMap THEN UpperMap[ch] ELSE ch

toUpperCase(s) == [i \in 1..Len(s) |-> UpperOf(s[i])]

RECURSIVE trimStart(_)
trimStart(s) ==
    IF s # << >> /\ Head(s) \in Whitespace THEN trimStart(Tail(s)) ELSE s

RECURSIVE trimEnd(_)
trimEnd(s) ==
    IF s # << >> /\ s[Len(s)] \in Whitespace
    THEN trimEnd(SubSeq(s, 1, Len(s) - 1))
    ELSE s

trim(s) == trimEnd(trimStart(s))

startsWith(s, p) == Len(s) >= Len(p) /\ SubSeq(s, 1, Len(p)) = p

(***************************************************************************)
(* lib/sync: sync codes, PIN hash, auth token.                             *)
(***************************************************************************)
SignalPrefix == <<"S","I","G","N","A","L","-">>

\* The alphabet of generateSyncCode (no 0, O, 1, I).
chars == <<"A","B","C","D","E","F","G","H","J","K","L","M","N","P","Q","R",
           "S","T","U","V","W","X","Y","Z","2","3","4","5","6","7","8","9">>

\* Number of characters generateSyncCode appends to the prefix.
CodeLen == 6

\* crypto.subtle.digest('SHA-256', .) followed by the hex rendering, as an
\* ideal collision-free digest of fixed length (DigestLen characters here, 64
\* in the code): the preimage padded with a character no preimage contains.
\* Two preimages of at most DigestLen characters have equal digests exactly
\* when they are equal.
Sha256Hex(data) == data \o [i \in 1..(DigestLen - Len(data)) |-> "#"]

hashPin(pin, salt) == Sha256Hex(pin \o salt)

\* Mutant of CompareLoop: the loop ends at the first difference.
RECURSIVE CompareLoopShortCircuit(_, _, _, _, _)
CompareLoopShortCircuit(a, b, i, result, steps) ==
    IF i > Len(a) THEN [result |-> result, steps |-> steps]
    ELSE IF a[i] # b[i] THEN [result |-> 1, steps |-> steps + 1]
    ELSE CompareLoopShortCircuit(a, b, i + 1, result, steps + 1)

\* The loop of constantTimeCompare: OR of the XOR of the character codes;
\* a position contributes a non-zero bit exactly when the characters differ.
\* steps counts the passes through the loop body.
RECURSIVE CompareLoop(_, _, _, _, _)
CompareLoop(a, b, i, result, steps) ==
    IF i > Len(a) THEN [result |-> result, steps |-> steps]
    ELSE CompareLoop(a, b, i + 1, IF a[i] # b[i] THEN 1 ELSE result, steps + 1)

\* Mutant of constantTimeCompare: the loop never records a difference.
constantTimeCompareLengthOnly(a, b) == Len(a) = Len(b)

constantTimeCompare(a, b) ==
    IF Len(a) # Len(b) THEN FALSE ELSE CompareLoop(a, b, 1, 0, 0).result = 0

verifyPin(pin, salt, storedHash) ==
    constantTimeCompare(hashPin(pin, salt), storedHash)

AuthSuffix == <<"a","u","t","h">>

\* Mutant of generateAuthToken: the token is derived the way a PIN hash is,
\* from the last four characters of the code and the salt.
generateAuthTokenFromTail(syncCode, salt) ==
    Sha256Hex(SubSeq(syncCode, Len(syncCode) - 3, Len(syncCode)) \o salt)

generateAuthToken(syncCode, salt) == Sha256Hex(syncCode \o salt \o AuthSuffix)

verifyAuthToken(token, syncCode, salt) ==
    constantTimeCompare(token, generateAuthToken(syncCode, salt))

\* Mutant of NormalizeCode: the prefix is looked for before upper-casing.
NormalizeCodePrefixBeforeCase(syncCode) ==
    LET n == trim(syncCode)
    IN  IF startsWith(n, SignalPrefix) THEN toUpperCase(n)
        ELSE SignalPrefix \o toUpperCase(n)

\* Mutant of NormalizeCode: the code is not upper-cased.
NormalizeCodeKeepingCase(syncCode) ==
    LET n == trim(syncCode)
    IN  IF startsWith(n, SignalPrefix) THEN n ELSE SignalPrefix \o n

\* "Normalize sync code": upper-case, trim, prepend SIGNAL- when missing.
NormalizeCode(syncCode) ==
    LET n == trim(toUpperCase(syncCode))
    IN  IF startsWith(n, SignalPrefix) THEN n ELSE SignalPrefix \o n

(***************************************************************************)
(* JavaScript values.                                                      *)
(***************************************************************************)
\* null, for a nullable object or number; <<v>> is the value v.
Null == << >>
\* An object without fields; also stands for an absent (undefined) object,
\* since o?.f is undefined in both cases.
NoObject == << >>
\* headers.get() of a header the request does not carry (null), and the
\* empty string: both are falsy and take the same branches.
NoString == << >>

Has(o, f) == f \in DOMAIN o

\* o.f || d for a string, number, boolean and array field (an absent field is
\* undefined; '' , 0 and false are falsy; every array is truthy).
OrStr(o, f, d) == IF Has(o, f) /\ o[f] # "" THEN o[f] ELSE d
OrNum(o, f, d) == IF Has(o, f) /\ o[f] # 0 THEN o[f] ELSE d
OrBool(o, f, d) == IF Has(o, f) /\ o[f] THEN o[f] ELSE d
OrArray(o, f, d) == IF Has(o, f) THEN o[f] ELSE d
\* o.f ?? null for a nullable field.
NullishNull(o, f) == IF Has(o, f) THEN o[f] ELSE Null

(***************************************************************************)
(* The snapshot values used as inputs.                                     *)
(***************************************************************************)
DataFields == {"todos", "recurringTasks", "pauseLogs", "timerState",
               "recurringAddedDates"}

TodoX == [id |-> "t1", text |-> "buy milk", completed |-> FALSE,
          createdAt |-> 1, dateKey |-> "d1", updatedAt |-> 1]
TodoY == [id |-> "t2", text |-> "call bank", completed |-> TRUE,
          createdAt |-> 1, dateKey |-> "d1", updatedAt |-> 1]
\* A task as the to-do list holds it: with fields SyncedTodo does not have.
TodoClient == [id |-> "t1", text |-> "buy milk", completed |-> FALSE,
               createdAt |-> 1, dateKey |-> "d1", updatedAt |-> 1,
               important |-> TRUE, notes |-> "2 litres"]
RecurA == [id |-> "r1", text |-> "stretch", weekdays |-> <<1, 3>>,
           createdAt |-> 1, updatedAt |-> 1]
PauseA == [id |-> "p1", reason |-> "lunch", startTime |-> 1,
           endTime |-> <<2>>, duration |-> 1, dateKey |-> "d1"]
\* A timer as the to-do list holds it (TimerState has no updatedAt).
TimerClient == [startTime |-> <<1>>, pausedAt |-> Null, totalPausedTime |-> 0,
                isPaused |-> FALSE, dateKey |-> <<"d1">>]
\* A timer as a Push carries it after a Login (SyncedTimerState).
TimerSynced == [startTime |-> <<1>>, pausedAt |-> <<2>>, totalPausedTime |-> 0,
                isPaused |-> TRUE, dateKey |-> <<"d1">>, updatedAt |-> 1]

(***************************************************************************)
(* The blob store: a function from pathnames to the documents put there.   *)
(* put() replaces the document of a pathname as a whole or fails and       *)
(* leaves the store as it was.                                             *)
(***************************************************************************)
BlobPath(code) ==
    <<"s","y","n","c","/">> \o code \o <<".","j","s","o","n">>

\* list({ prefix }): the pathnames that start with the prefix.
list(st, prefix) == {p \in DOMAIN st : startsWith(p, prefix)}

\* blobs[0] of a non-empty listing.
FirstBlob(blobs) == CHOOSE p \in blobs : TRUE

put(st, path, doc) ==
    [p \in DOMAIN st \cup {path} |-> IF p = path THEN doc ELSE st[p]]

\* What a handler answers: the HTTP status, the JSON body, and the store it
\* leaves behind.
Reply(status, body, st) == [status |-> status, body |-> body, store |-> st]

ErrorReply(status, message, st) == Reply(status, [error |-> message], st)

(***************************************************************************)
(* POST /api/sync/setup                                                    *)
(***************************************************************************)
\* !pin || !/^\d{4}$/.test(pin)
InvalidPin(pin) ==
    pin = NoString \/ ~(Len(pin) = 4 /\ \A i \in 1..Len(pin) : pin[i] \in Digits)

maxAttempts == 10

\* The sync codes generateSyncCode draws in the model: the prefix followed
\* by CodeLen characters of the alphabet.
GenCodes ==
    {SignalPrefix \o [i \in 1..CodeLen |-> chars[k]] : k \in {1, 2}}

\* The ways one head() call can end for a candidate: "found" (it returns the
\* blob's metadata), "notfound" (it throws because no such blob exists),
\* "error" (it throws for another reason, when headErrors allows that).
\* What the existence check of a candidate can come to.
HeadResults == {"found", "notfound", "error"}

HeadOutcomes(st, code, headErrors) ==
    (IF BlobPath(code) \in DOMAIN st THEN {"found"} ELSE {"notfound"})
        \cup (IF headErrors THEN {"error"} ELSE {})

\* Mutant of AllocLoop: the loop goes round while attempts <= maxAttempts.
RECURSIVE AllocLoopOneMore(_, _, _)
AllocLoopOneMore(st, attempts, headErrors) ==
    LET n == attempts + 1
        ends == {<<c, n, o>> : <<c, o>> \in
                    {co \in GenCodes \X HeadResults :
                        /\ co[2] \in HeadOutcomes(st, co[1], headErrors)
                        /\ ~(co[2] = "found" /\ n <= maxAttempts)}}
        again == /\ n <= maxAttempts
                 /\ \E c \in GenCodes : "found" \in HeadOutcomes(st, c, headErrors)
    IN  ends \cup (IF again THEN AllocLoopOneMore(st, n, headErrors) ELSE {})

\* The do-while loop that draws candidates: the set of <<syncCode, attempts,
\* outcome of the last head()>> with which it can end, entered with
\* `attempts` draws made so far.  The loop goes round again exactly when
\* head() found the candidate and attempts < maxAttempts.
RECURSIVE AllocLoop(_, _, _)
AllocLoop(st, attempts, headErrors) ==
    LET n == attempts + 1
        ends == {<<c, n, o>> : <<c, o>> \in
                    {co \in GenCodes \X HeadResults :
                        /\ co[2] \in HeadOutcomes(st, co[1], headErrors)
                        /\ ~(co[2] = "found" /\ n < maxAttempts)}}
        again == /\ n < maxAttempts
                 /\ \E c \in GenCodes : "found" \in HeadOutcomes(st, c, headErrors)
    IN  ends \cup (IF again THEN AllocLoop(st, n, headErrors) ELSE {})

NormTodo(t, now, uuid) ==
    [id |-> OrStr(t, "id", uuid), text |-> OrStr(t, "text", ""),
     completed |-> OrBool(t, "completed", FALSE),
     createdAt |-> OrNum(t, "createdAt", now),
     dateKey |-> OrStr(t, "dateKey", ""),
     updatedAt |-> OrNum(t, "updatedAt", now)]

NormRecurring(t, now, uuid) ==
    [id |-> OrStr(t, "id", uuid), text |-> OrStr(t, "text", ""),
     weekdays |-> OrArray(t, "weekdays", << >>),
     createdAt |-> OrNum(t, "createdAt", now),
     updatedAt |-> OrNum(t, "updatedAt", now)]

\* existingData?.timerState ? { ... , updatedAt: now } : null
NormTimer(ed, now) ==
    IF Has(ed, "timerState") /\ ed.timerState # Null
    THEN LET t == ed.timerState[1]
         IN  <<[startTime |-> NullishNull(t, "startTime"),
                pausedAt |-> NullishNull(t, "pausedAt"),
                totalPausedTime |-> OrNum(t, "totalPausedTime", 0),
                isPaused |-> OrBool(t, "isPaused", FALSE),
                dateKey |-> NullishNull(t, "dateKey"),
                updatedAt |-> now]>>
    ELSE Null

\* "Create synced data structure".  uuid is what crypto.randomUUID() returns
\* for a task without id.
NewDocument(syncCode, pin, salt, ed, now, uuid) ==
    LET todos == OrArray(ed, "todos", << >>)
        recurring == OrArray(ed, "recurringTasks", << >>)
    IN  [syncCode |-> syncCode,
         pinHash |-> hashPin(pin, salt),
         salt |-> salt,
         createdAt |-> now,
         lastSyncedAt |-> now,
         todos |-> [i \in 1..Len(todos) |-> NormTodo(todos[i], now, uuid)],
         recurringTasks |->
            [i \in 1..Len(recurring) |-> NormRecurring(recurring[i], now, uuid)],
         pauseLogs |-> OrArray(ed, "pauseLogs", << >>),
         timerState |-> NormTimer(ed, now),
         recurringAddedDates |-> OrArray(ed, "recurringAddedDates", << >>)]

SetupResponse(syncCode, salt) ==
    [success |-> TRUE, syncCode |-> syncCode,
     authToken |-> generateAuthToken(syncCode, salt)]

\* The handler after the PIN check, for one way <<syncCode, attempts, o>> the
\* allocation loop ended.
SetupHandler(st, pin, ed, alloc, salt, now, uuid, fault) ==
    IF InvalidPin(pin)
    THEN ErrorReply(400, "PIN must be exactly 4 digits", st)
    ELSE IF alloc[2] >= maxAttempts
    THEN ErrorReply(500, "Failed to generate unique sync code", st)
    ELSE IF fault = "put"
    THEN ErrorReply(500, "Failed to create sync account", st)
    ELSE Reply(200, SetupResponse(alloc[1], salt),
               put(st, BlobPath(alloc[1]),
                   NewDocument(alloc[1], pin, salt, ed, now, uuid)))

(***************************************************************************)
(* The snapshot a response carries: the data fields and lastSyncedAt,      *)
(* picked one by one from the stored document.                             *)
(***************************************************************************)
\* Mutant of Snapshot: the stored document is returned as it is.
SnapshotWholeDocument(doc) == doc

Snapshot(doc) ==
    [todos |-> doc.todos,
     recurringTasks |-> doc.recurringTasks,
     pauseLogs |-> doc.pauseLogs,
     timerState |-> doc.timerState,
     recurringAddedDates |-> doc.recurringAddedDates,
     lastSyncedAt |-> doc.lastSyncedAt]

(***************************************************************************)
(* POST /api/sync/login                                                    *)
(* fault: "list" (list() throws), "fetch" (the blob's URL answers not ok). *)
(***************************************************************************)
LoginResponse(normalizedCode, doc) ==
    [success |-> TRUE,
     syncCode |-> normalizedCode,
     authToken |-> generateAuthToken(normalizedCode, doc.salt),
     data |-> Snapshot(doc)]

\* Mutant of LoginHandler: an accepted Login stamps the document.
LoginHandlerStamping(st, syncCode, pin, fault) ==
    LET path == BlobPath(NormalizeCode(syncCode))
    IN  IF syncCode = NoString \/ pin = NoString
        THEN ErrorReply(400, "Sync code and PIN are required", st)
        ELSE IF fault = "list" THEN ErrorReply(500, "Failed to login", st)
        ELSE IF path \notin DOMAIN st \/ fault = "fetch"
        THEN ErrorReply(404, "Sync code not found", st)
        ELSE IF ~verifyPin(pin, st[path].salt, st[path].pinHash)
        THEN ErrorReply(401, "Invalid PIN", st)
        ELSE LET doc == [st[path] EXCEPT !.lastSyncedAt = @ + 1]
             IN  Reply(200, LoginResponse(NormalizeCode(syncCode), doc),
                       put(st, path, doc))

LoginHandler(st, syncCode, pin, fault) ==
    IF syncCode = NoString \/ pin = NoString
    THEN ErrorReply(400, "Sync code and PIN are required", st)
    ELSE LET normalizedCode == NormalizeCode(syncCode)
             blobs == list(st, BlobPath(normalizedCode))
         IN  IF fault = "list"
             THEN ErrorReply(500, "Failed to login", st)
             ELSE IF blobs = {}
             THEN ErrorReply(404, "Sync code not found", st)
             ELSE IF fault = "fetch"
             THEN ErrorReply(404, "Sync code not found", st)
             ELSE LET syncedData == st[FirstBlob(blobs)]
                  IN  IF ~verifyPin(pin, syncedData.salt, syncedData.pinHash)
                      THEN ErrorReply(401, "Invalid PIN", st)
                      ELSE Reply(200, LoginResponse(normalizedCode, syncedData), st)

(***************************************************************************)
(* GET /api/sync (Pull).  The handler reads the x-sync-code header only.   *)
(***************************************************************************)
GetHandler(st, syncCode, authToken, fault) ==
    IF syncCode = NoString
    THEN ErrorReply(400, "Sync code required", st)
    ELSE LET normalizedCode == NormalizeCode(syncCode)
             blobs == list(st, BlobPath(normalizedCode))
         IN  IF fault = "list"
             THEN ErrorReply(500, "Failed to fetch sync data", st)
             ELSE IF blobs = {}
             THEN ErrorReply(404, "Sync data not found", st)
             ELSE IF fault = "fetch"
             THEN ErrorReply(500, "Failed to fetch sync data", st)
             ELSE Reply(200, Snapshot(st[FirstBlob(blobs)]), st)

(***************************************************************************)
(* POST /api/sync (Push)                                                   *)
(* fault: "list", "fetch", or "put" (put() throws).                        *)
(***************************************************************************)
\* Mutant of MergeData: an empty list and a null timerState of the request
\* are taken as absent.
MergeDataKeepingOnEmpty(existingData, body, now) ==
    LET OrNonEmpty(o, f, d) == IF Has(o, f) /\ o[f] # << >> THEN o[f] ELSE d
    IN
    [syncCode |-> existingData.syncCode,
     pinHash |-> existingData.pinHash,
     salt |-> existingData.salt,
     createdAt |-> existingData.createdAt,
     lastSyncedAt |-> now,
     todos |-> OrNonEmpty(body, "todos", existingData.todos),
     recurringTasks |->
        OrNonEmpty(body, "recurringTasks", existingData.recurringTasks),
     pauseLogs |-> OrNonEmpty(body, "pauseLogs", existingData.pauseLogs),
     timerState |-> OrNonEmpty(body, "timerState", existingData.timerState),
     recurringAddedDates |->
        OrNonEmpty(body, "recurringAddedDates", existingData.recurringAddedDates)]

\* Mutant of MergeData: createdAt is stamped like lastSyncedAt.
MergeDataStampingCreatedAt(existingData, body, now) ==
    [syncCode |-> existingData.syncCode,
     pinHash |-> existingData.pinHash,
     salt |-> existingData.salt,
     createdAt |-> now,
     lastSyncedAt |-> now,
     todos |-> OrArray(body, "todos", existingData.todos),
     recurringTasks |-> OrArray(body, "recurringTasks", existingData.recurringTasks),
     pauseLogs |-> OrArray(body, "pauseLogs", existingData.pauseLogs),
     timerState |-> IF Has(body, "timerState") THEN body.timerState
                    ELSE existingData.timerState,
     recurringAddedDates |->
        OrArray(body, "recurringAddedDates", existingData.recurringAddedDates)]

\* Mutant of MergeData: the todos of the request are appended to the stored
\* ones, and timerState is taken with || like the lists.
MergeDataAppending(existingData, body, now) ==
    [syncCode |-> existingData.syncCode,
     pinHash |-> existingData.pinHash,
     salt |-> existingData.salt,
     createdAt |-> existingData.createdAt,
     lastSyncedAt |-> now,
     todos |-> existingData.todos \o OrArray(body, "todos", << >>),
     recurringTasks |-> OrArray(body, "recurringTasks", existingData.recurringTasks),
     pauseLogs |-> OrArray(body, "pauseLogs", existingData.pauseLogs),
     timerState |-> IF Has(body, "timerState") /\ body.timerState # Null
                    THEN body.timerState ELSE existingData.timerState,
     recurringAddedDates |->
        OrArray(body, "recurringAddedDates", existingData.recurringAddedDates)]

\* "Merge data - preserve auth, update user data"
MergeData(existingData, body, now) ==
    [syncCode |-> existingData.syncCode,
     pinHash |-> existingData.pinHash,
     salt |-> existingData.salt,
     createdAt |-> existingData.createdAt,
     lastSyncedAt |-> now,
     todos |-> OrArray(body, "todos", existingData.todos),
     recurringTasks |-> OrArray(body, "recurringTasks", existingData.recurringTasks),
     pauseLogs |-> OrArray(body, "pauseLogs", existingData.pauseLogs),
     timerState |-> IF Has(body, "timerState") THEN body.timerState
                    ELSE existingData.timerState,
     recurringAddedDates |->
        OrArray(body, "recurringAddedDates", existingData.recurringAddedDates)]

\* Mutant of PostHandler: the document is stamped with the time of the
\* request before the token is verified.
PostHandlerStampingFirst(st, syncCode, authToken, body, now, fault) ==
    LET path == BlobPath(NormalizeCode(syncCode))
    IN  IF syncCode = NoString THEN ErrorReply(400, "Sync code required", st)
        ELSE IF authToken = NoString
        THEN ErrorReply(401, "Authentication required", st)
        ELSE IF fault = "list" THEN ErrorReply(500, "Failed to save sync data", st)
        ELSE IF path \notin DOMAIN st THEN ErrorReply(404, "Sync data not found", st)
        ELSE IF fault = "fetch"
        THEN ErrorReply(500, "Failed to fetch existing sync data", st)
        ELSE LET stamped == put(st, path, [st[path] EXCEPT !.lastSyncedAt = now])
             IN  IF ~verifyAuthToken(authToken, NormalizeCode(syncCode), st[path].salt)
                 THEN ErrorReply(401, "Invalid authentication token", stamped)
                 ELSE IF fault = "put"
                 THEN ErrorReply(500, "Failed to save sync data", stamped)
                 ELSE Reply(200, [success |-> TRUE, lastSyncedAt |-> now],
                            put(st, path, MergeData(st[path], body, now)))

PostHandler(st, syncCode, authToken, body, now, fault) ==
    IF syncCode = NoString
    THEN ErrorReply(400, "Sync code required", st)
    ELSE IF authToken = NoString
    THEN ErrorReply(401, "Authentication required", st)
    ELSE LET normalizedCode == NormalizeCode(syncCode)
             blobs == list(st, BlobPath(normalizedCode))
         IN  IF fault = "list"
             THEN ErrorReply(500, "Failed to save sync data", st)
             ELSE IF blobs = {}
             THEN ErrorReply(404, "Sync data not found", st)
             ELSE IF fault = "fetch"
             THEN ErrorReply(500, "Failed to fetch existing sync data", st)
             ELSE LET existingData == st[FirstBlob(blobs)]
                  IN  IF ~verifyAuthToken(authToken, normalizedCode, existingData.salt)
                      THEN ErrorReply(401, "Invalid authentication token", st)
                      ELSE IF fault = "put"
                      THEN ErrorReply(500, "Failed to save sync data", st)
                      ELSE Reply(200, [success |-> TRUE, lastSyncedAt |-> now],
                                 put(st, BlobPath(normalizedCode),
                                     MergeData(existingData, body, now)))

(***************************************************************************)
(* State.                                                                  *)
(***************************************************************************)
VARIABLES
    store,    \* the blob store: pathname -> Account Document
    clock,    \* what Date.now() returns
    setups,   \* Setup requests that wrote a document so far
    req,      \* the last request handled
    resp,     \* the response it was answered with
    acct,     \* per pathname, what the Setup that wrote it and the accepted
              \* Pushes since were given (history, read by no handler)
    procs,    \* per request slot, a Setup or Push between its reads of the
              \* store and its put()
    client,   \* one device: the to-do list and its sync agent
    lib       \* the last call of a function of lib/sync.ts made on its own:
              \* its arguments and what it returned

vars == <<store, clock, setups, req, resp, acct, procs, client, lib>>

(***************************************************************************)
(* Inputs.                                                                 *)
(***************************************************************************)
LowerOf(ch) == IF ch \in DOMAIN LowerMap THEN LowerMap[ch] ELSE ch

toLowerCase(s) == [i \in 1..Len(s) |-> LowerOf(s[i])]

CodeA == SignalPrefix \o [i \in 1..CodeLen |-> chars[1]]
CodeB == SignalPrefix \o [i \in 1..CodeLen |-> chars[2]]
\* A well-formed code no Setup of the model returns.
CodeUnknown == SignalPrefix \o [i \in 1..CodeLen |-> chars[3]]

\* The ways a user may type a code: as issued, in lower case, with
\* surrounding whitespace, without the prefix.
Spellings(code) ==
    {code,
     toLowerCase(code),
     <<" ">> \o code \o <<" ", "\n">>,
     SubSeq(code, Len(SignalPrefix) + 1, Len(code)),
     <<"\t">> \o toLowerCase(SubSeq(code, Len(SignalPrefix) + 1, Len(code)))}

\* The salt of the account the store holds initially.
SaltB == <<"u","2">>

\* What crypto.randomUUID() returns for a salt.
Salts == {<<"u","1">>, <<"u","2">>}

Pin1234 == <<"1","2","3","4">>
Pin0000 == <<"0","0","0","0">>
InputPins ==
    {Pin1234, Pin0000, <<"1","2","3">>, <<"1","2","3","4","5">>,
     <<"1","2","a","4">>, NoString}

\* existingData of a Setup request.
SnapshotSynced ==
    [todos |-> <<TodoX>>, recurringTasks |-> <<RecurA>>, pauseLogs |-> <<PauseA>>,
     timerState |-> Null, recurringAddedDates |-> <<"d1">>]
SnapshotClient ==
    [todos |-> <<TodoClient>>, recurringTasks |-> <<RecurA>>,
     pauseLogs |-> << >>, timerState |-> <<TimerClient>>,
     recurringAddedDates |-> << >>]
SetupInputs == {NoObject, SnapshotSynced, SnapshotClient}

\* The body of a Push request.
FullBody ==
    [todos |-> <<TodoY>>, recurringTasks |-> << >>, pauseLogs |-> <<PauseA>>,
     timerState |-> <<TimerSynced>>, recurringAddedDates |-> <<"d1">>]
\* Nothing, one field, todos twice with different values, a cleared and a
\* set timer, emptied lists, everything.
PushBodies ==
    {NoObject, [todos |-> <<TodoX>>], [todos |-> <<TodoY>>],
     [timerState |-> Null], [timerState |-> <<TimerSynced>>],
     [recurringTasks |-> << >>, recurringAddedDates |-> << >>], FullBody}

(***************************************************************************)
(* Initial state: the store holds one account, created at time 1 by a      *)
(* Setup with PIN 0000 and no existingData.                                *)
(***************************************************************************)
DataOf(doc) == [f \in DataFields |-> doc[f]]

\* The history entry of a document a Setup has just written: the PIN and
\* existingData it was given, the token it returned, when it ran, the data
\* fields the document is expected to hold, and how many Pushes have been
\* accepted since (0, 1, or 2 for more than one).
Created(pin, ed, token, doc) ==
    [pin |-> pin, token |-> token, input |-> ed, createdAt |-> doc.createdAt,
     pushes |-> 0, expect |-> DataOf(doc)]

\* The request slots of the server, and a slot that holds no request.
Slots == 1..MaxInFlight
Idle == [op |-> "idle"]

\* The to-do list as the page shows it first: tasks and a timer of its own,
\* no sync state in localStorage, nothing scheduled.
LocalData ==
    [todos |-> <<TodoClient>>, recurringTasks |-> << >>, pauseLogs |-> << >>,
     timerState |-> <<TimerClient>>, recurringAddedDates |-> << >>]

\* What the device did last (history): the step, and for a Push attempt
\* its retryCount, whether it succeeded and how many edits preceded it; for
\* a Setup or Login whether it succeeded and the snapshot handed to the
\* to-do list.
Did(step, retryCount, ok, handed, burst) ==
    [step |-> step, retryCount |-> retryCount, ok |-> ok, handed |-> handed,
     burst |-> burst]

\* stored is the sync state in localStorage, syncState the one the to-do
\* list holds; timers are the pending setTimeout calls, inflight the calls
\* of syncToServer that await the answer to their request.  pristine
\* (history): a Login has succeeded since the page was loaded and the user
\* has made no edit since.
ClientInit ==
    [stored |-> Null, syncState |-> Null, data |-> LocalData,
     timers |-> {}, inflight |-> {}, syncTimeoutRef |-> 0, syncError |-> Null,
     isSyncing |-> FALSE, retryCount |-> 0, events |-> 0, burst |-> 0,
     pristine |-> FALSE,
     last |-> Did("none", 0, FALSE, NoObject, 0)]

NoCall == [fn |-> "none", args |-> NoObject, out |-> NoObject]

NoRequest ==
    [op |-> "none", syncCode |-> NoString, pin |-> NoString,
     token |-> NoString, body |-> NoObject, fault |-> "none", attempts |-> 0,
     head |-> "none", again |-> FALSE]

Init ==
    LET doc == NewDocument(CodeB, Pin0000, SaltB, NoObject, 1, "uuid-1")
    IN  /\ store = (BlobPath(CodeB) :> doc)
        /\ clock = 1
        /\ setups = 0
        /\ req = NoRequest
        /\ resp = [status |-> 0, body |-> NoObject]
        /\ acct = (BlobPath(CodeB) :>
                      Created(Pin0000, NoObject,
                              generateAuthToken(CodeB, SaltB), doc))
        /\ procs = [p \in Slots |-> Idle]
        /\ client = ClientInit
        /\ lib = NoCall

(***************************************************************************)
(* Actions: one per request handled, and the passing of time.              *)
(***************************************************************************)
Tick ==
    /\ clock < MaxTime
    /\ clock' = clock + 1
    /\ UNCHANGED <<store, setups, req, resp, acct, procs, client, lib>>

Answer(r) == [status |-> r.status, body |-> r.body]

\* Mutant of SetupAllocs: candidates are drawn before the PIN is checked.
SetupAllocsBeforePinCheck(st, pin, headErrors) == AllocLoop(st, 0, headErrors)

\* The allocation loop runs only after the PIN check has passed.
SetupAllocs(st, pin, headErrors) ==
    IF InvalidPin(pin) THEN {<<NoString, 0, "none">>}
    ELSE AllocLoop(st, 0, headErrors)

\* What a Setup request that was answered with r leaves behind: the store
\* after it, the request and response, and the history of the account.
SetupServed(pin, ed, alloc, fault, r, st) ==
    LET path == BlobPath(alloc[1])
    IN  /\ store' = st
        /\ resp' = Answer(r)
        /\ req' = [op |-> "setup", syncCode |-> NoString, pin |-> pin,
                   token |-> NoString, body |-> ed, fault |-> fault,
                   attempts |-> alloc[2], head |-> alloc[3], again |-> FALSE]
        /\ setups' = IF r.status = 200 THEN setups + 1 ELSE setups
        /\ acct' = IF r.status = 200
                   THEN put(acct, path,
                            Created(pin, ed, r.body.authToken, r.store[path]))
                   ELSE acct

Setup(pins, inputs, salts, uuids, headErrors, faults) ==
    /\ setups < MaxSetups
    /\ \E pin \in pins, ed \in inputs, salt \in salts, uuid \in uuids,
          fault \in faults :
          \E alloc \in SetupAllocs(store, pin, headErrors) :
          \E r \in {SetupHandler(store, pin, ed, alloc, salt, clock, uuid, fault)} :
              SetupServed(pin, ed, alloc, fault, r, r.store)
    /\ UNCHANGED <<clock, procs, client, lib>>

LoginServed(syncCode, pin, fault, r) ==
    /\ store' = r.store
    /\ resp' = Answer(r)
    /\ req' = [op |-> "login", syncCode |-> syncCode, pin |-> pin,
               token |-> NoString, body |-> NoObject, fault |-> fault,
               attempts |-> 0, head |-> "none", again |-> FALSE]

Login(codes, pins, faults) ==
    /\ \E syncCode \in codes, pin \in pins, fault \in faults :
          \E r \in {LoginHandler(store, syncCode, pin, fault)} :
              LoginServed(syncCode, pin, fault, r)
    /\ UNCHANGED <<clock, setups, acct, procs, client, lib>>

Pull(codes, tokens, faults) ==
    /\ \E syncCode \in codes, authToken \in tokens, fault \in faults :
          \E r \in {GetHandler(store, syncCode, authToken, fault)} :
              /\ store' = r.store
              /\ resp' = Answer(r)
              /\ req' = [op |-> "pull", syncCode |-> syncCode, pin |-> NoString,
                         token |-> authToken, body |-> NoObject, fault |-> fault,
                         attempts |-> 0, head |-> "none", again |-> FALSE]
    /\ UNCHANGED <<clock, setups, acct, procs, client, lib>>

\* The history after an accepted Push: each field the body carries is the
\* value expected in the document from now on.
Pushed(entry, body) ==
    [entry EXCEPT !.pushes = IF @ = 0 THEN 1 ELSE 2,
                  !.expect = [f \in DataFields |->
                                 IF f \in DOMAIN body THEN body[f] ELSE @[f]]]

\* What a Push request that was answered with r leaves behind.
PushServed(syncCode, authToken, body, fault, r, st) ==
    LET path == BlobPath(NormalizeCode(syncCode))
    IN  /\ store' = st
        /\ resp' = Answer(r)
        /\ req' = [op |-> "push", syncCode |-> syncCode, pin |-> NoString,
                   token |-> authToken, body |-> body, fault |-> fault,
                   attempts |-> 0, head |-> "none",
                   again |-> /\ req.op = "push" /\ resp.status = 200
                             /\ req.syncCode = syncCode
                             /\ req.token = authToken
                             /\ req.body = body]
        /\ acct' = IF r.status = 200
                   THEN [acct EXCEPT ![path] = Pushed(@, body)]
                   ELSE acct

Push(codes, tokens, bodies, faults) ==
    /\ \E syncCode \in codes, authToken \in tokens, body \in bodies,
          fault \in faults :
          \E r \in {PostHandler(store, syncCode, authToken, body, clock, fault)} :
              PushServed(syncCode, authToken, body, fault, r, r.store)
    /\ UNCHANGED <<clock, setups, procs, client, lib>>

(***************************************************************************)
(* Requests that overlap.  A handler reads the store (head() in Setup,     *)
(* list() and fetch() in Push), awaits, and calls put() later; between the *)
(* two any other request may read or write.  A request in a slot keeps     *)
(* what it read (seen); its put() lands on the store as it is by then.     *)
(***************************************************************************)
\* The slot a new request takes: the first that holds none.
FreeSlot(p) == procs[p] = Idle /\ \A q \in Slots : q < p => procs[q] # Idle

\* Setup up to the end of its allocation loop, which ended after one of
\* `draws` attempts.
SetupBegin(pins, inputs, headErrors, draws) ==
    /\ \E p \in Slots, pin \in pins, ed \in inputs :
          /\ FreeSlot(p)
          /\ \E alloc \in SetupAllocs(store, pin, headErrors) :
                /\ alloc[2] \in draws
                /\ procs' = [procs EXCEPT ![p] =
                                [op |-> "setup", pin |-> pin, ed |-> ed,
                                 alloc |-> alloc, seen |-> store]]
    /\ UNCHANGED <<store, clock, setups, req, resp, acct, client, lib>>

\* The rest of Setup: salt, hash, token, Date.now(), put(), response.
SetupEnd(salts, uuids, faults) ==
    /\ \E p \in Slots, salt \in salts, uuid \in uuids, fault \in faults :
          /\ procs[p].op = "setup"
          /\ \E r \in {SetupHandler(procs[p].seen, procs[p].pin, procs[p].ed,
                                    procs[p].alloc, salt, clock, uuid, fault)},
                path \in {BlobPath(procs[p].alloc[1])} :
                SetupServed(procs[p].pin, procs[p].ed, procs[p].alloc, fault, r,
                            IF r.status = 200
                            THEN put(store, path, r.store[path]) ELSE store)
          /\ procs' = [procs EXCEPT ![p] = Idle]
    /\ UNCHANGED <<clock, client, lib>>

\* Push up to the verification of the token: headers, list(), fetch().
\* now = 0: Date.now() has not been called yet (the clock starts at 1).
PushBegin(codes, tokens, bodies) ==
    /\ \E p \in Slots, syncCode \in codes, authToken \in tokens, body \in bodies :
          /\ FreeSlot(p)
          /\ procs' = [procs EXCEPT ![p] =
                          [op |-> "push", syncCode |-> syncCode,
                           token |-> authToken, body |-> body, seen |-> store,
                           now |-> 0]]
    /\ UNCHANGED <<store, clock, setups, req, resp, acct, client, lib>>

\* Push from the verification of the token to the call of put(): the body
\* is read, Date.now() is called and the document to write is built.
PushStamp ==
    /\ \E p \in Slots :
          /\ procs[p].op = "push"
          /\ procs[p].now = 0
          /\ procs' = [procs EXCEPT ![p].now = clock]
    /\ UNCHANGED <<store, clock, setups, req, resp, acct, client, lib>>

\* The rest of Push: the put() of the document built from the one that was
\* fetched lands, and the response is sent.
PushEnd(faults) ==
    /\ \E p \in Slots, fault \in faults :
          /\ procs[p].op = "push"
          /\ procs[p].now # 0
          /\ \E r \in {PostHandler(procs[p].seen, procs[p].syncCode,
                                   procs[p].token, procs[p].body,
                                   procs[p].now, fault)},
                path \in {BlobPath(NormalizeCode(procs[p].syncCode))} :
                PushServed(procs[p].syncCode, procs[p].token, procs[p].body,
                           fault, r,
                           IF r.status = 200
                           THEN put(store, path, r.store[path]) ELSE store)
          /\ procs' = [procs EXCEPT ![p] = Idle]
    /\ UNCHANGED <<clock, setups, client, lib>>

(***************************************************************************)
(* The device: the to-do list (TodoList) with its sync agent, and the sync *)
(* dialog (SyncModal).  Time passes in steps of TimeStep ms, of which all   *)
(* delays are multiples; a timer fires when its time is up, before more    *)
(* time passes, and the user may act before it fires.                      *)
(***************************************************************************)
\* setTimeout(() => syncToServer(), 1000)
DebounceMs == 1000
maxRetries == 3
TimeStep == DebounceMs

Min(a, b) == IF a < b THEN a ELSE b

\* Mutant of Backoff: the delay grows by one second per retry.
BackoffLinear(retryCount) == Min(1000 * (retryCount + 1), 10000)

\* Math.min(1000 * Math.pow(2, retryCount), 10000)
Backoff(retryCount) == Min(1000 * 2^retryCount, 10000)

\* Mutant of DebounceEffect: the pending timer is not cleared.
DebounceEffectWithoutCleanup(c, id) ==
    IF c.syncState = Null THEN c
    ELSE [c EXCEPT !.timers = @ \cup
                      {[kind |-> "debounce", id |-> id, left |-> DebounceMs,
                        retryCount |-> 0, syncState |-> c.syncState[1],
                        body |-> c.data]},
                   !.syncTimeoutRef = id]

\* The debounce effect with a cleanup that clears every pending timer.
DebounceEffectClearingAll(c, id) ==
    IF c.syncState = Null THEN [c EXCEPT !.timers = {}]
    ELSE [c EXCEPT !.timers = {[kind |-> "debounce", id |-> id,
                                left |-> DebounceMs, retryCount |-> 0,
                                syncState |-> c.syncState[1],
                                body |-> c.data]},
                   !.syncTimeoutRef = id]

\* The debounce effect, run after a render in which syncState or one of the
\* five data fields changed: the cleanup of the previous run clears the
\* timer syncTimeoutRef names; without syncState nothing more happens, with
\* it a timer is set for the syncToServer of this render, which holds
\* this render's syncState and data.
DebounceEffect(c, id) ==
    LET cleared == {t \in c.timers :
                       ~(t.kind = "debounce" /\ t.id = c.syncTimeoutRef)}
    IN  IF c.syncState = Null THEN [c EXCEPT !.timers = cleared]
        ELSE [c EXCEPT !.timers = cleared \cup
                          {[kind |-> "debounce", id |-> id, left |-> DebounceMs,
                            retryCount |-> 0, syncState |-> c.syncState[1],
                            body |-> c.data]},
                       !.syncTimeoutRef = id]

\* if (data.f): an array is truthy, a null timerState is not.
Truthy(f, v) == IF f = "timerState" THEN v # Null ELSE TRUE

handleSyncData(c, newSyncState, data) ==
    [c EXCEPT !.syncState = <<newSyncState>>,
              !.data = [f \in DataFields |->
                           IF Has(data, f) /\ Truthy(f, data[f])
                           THEN data[f] ELSE @[f]]]

\* syncToServer up to its fetch: setIsSyncing(true), setSyncError(null).
syncToServerStart(c) == [c EXCEPT !.isSyncing = TRUE, !.syncError = Null]

\* syncToServer(t.retryCount) of the render timer t was set in, from the
\* moment its request has succeeded (ok) or failed with message.
syncToServerEnd(c, t, ok, message) ==
    IF ok THEN [c EXCEPT !.retryCount = 0, !.isSyncing = FALSE]
    ELSE IF t.retryCount < maxRetries
    THEN [c EXCEPT !.retryCount = t.retryCount + 1,
                   !.timers = @ \cup
                      {[t EXCEPT !.kind = "retry",
                                 !.left = Backoff(t.retryCount),
                                 !.retryCount = t.retryCount + 1]}]
    ELSE [c EXCEPT !.syncError = <<message>>, !.retryCount = 0,
                   !.isSyncing = FALSE]

\* syncToServer(t.retryCount) whose request is answered, or fails, before
\* anything else happens on the device.
syncToServer(c, t, ok, message) ==
    syncToServerEnd(syncToServerStart(c), t, ok, message)

AdvanceTime ==
    /\ client.timers # {}
    /\ \A t \in client.timers : t.left > 0
    /\ client' = [client EXCEPT
                     !.timers = {[t EXCEPT !.left = @ - TimeStep] : t \in @},
                     !.last = Did("advance", 0, FALSE, NoObject, 0)]
    /\ UNCHANGED <<store, clock, setups, req, resp, acct, procs, lib>>

\* A timer fires: the request is made and answered, or fails to reach the
\* server (fault "network"), and syncToServer runs to its end.
Fire(faults) ==
    /\ \E t \in client.timers, fault \in faults :
          /\ t.left = 0
          /\ LET c0 == [client EXCEPT
                           !.timers = @ \ {t},
                           !.burst = IF t.kind = "debounce" THEN 0 ELSE @]
                 did(ok) == Did(t.kind, t.retryCount, ok, t.body, client.burst)
             IN  IF fault = "network"
                 THEN /\ client' = [syncToServer(c0, t, FALSE, "Failed to fetch")
                                       EXCEPT !.last = did(FALSE)]
                      /\ UNCHANGED <<store, req, resp, acct>>
                 ELSE \E r \in {PostHandler(store, t.syncState.syncCode,
                                            t.syncState.authToken, t.body,
                                            clock, fault)} :
                        /\ PushServed(t.syncState.syncCode,
                                      t.syncState.authToken, t.body, fault, r,
                                      r.store)
                        /\ client' =
                              [syncToServer(c0, t, r.status = 200,
                                            IF r.status = 200 THEN ""
                                            ELSE r.body.error)
                                  EXCEPT !.last = did(r.status = 200)]
    /\ UNCHANGED <<clock, setups, procs, lib>>

\* A timer fires and syncToServer sends its request, which stays in flight
\* (at most MaxInFlight requests at a time).
SendPush ==
    /\ Cardinality(client.inflight) < MaxInFlight
    /\ \E t \in client.timers :
          /\ t.left = 0
          /\ client' = [syncToServerStart(client) EXCEPT
                           !.timers = @ \ {t},
                           !.inflight = @ \cup {t},
                           !.burst = IF t.kind = "debounce" THEN 0 ELSE @,
                           !.last = Did("send", t.retryCount, FALSE, t.body,
                                        client.burst)]
    /\ UNCHANGED <<store, clock, setups, req, resp, acct, procs, lib>>

\* A request in flight is handled by the server and answered, or is lost
\* (fault "network"), and its syncToServer runs to its end.
ReceivePush(faults) ==
    /\ \E t \in client.inflight, fault \in faults :
          LET c0 == [client EXCEPT !.inflight = @ \ {t}]
              did(ok) == Did(t.kind, t.retryCount, ok, t.body, 0)
          IN  IF fault = "network"
              THEN /\ client' = [syncToServerEnd(c0, t, FALSE, "Failed to fetch")
                                    EXCEPT !.last = did(FALSE)]
                   /\ UNCHANGED <<store, req, resp, acct>>
              ELSE \E r \in {PostHandler(store, t.syncState.syncCode,
                                         t.syncState.authToken, t.body,
                                         clock, fault)} :
                     /\ PushServed(t.syncState.syncCode,
                                   t.syncState.authToken, t.body, fault, r,
                                   r.store)
                     /\ client' =
                           [syncToServerEnd(c0, t, r.status = 200,
                                            IF r.status = 200 THEN ""
                                            ELSE r.body.error)
                               EXCEPT !.last = did(r.status = 200)]
    /\ UNCHANGED <<clock, setups, procs, lib>>

\* The user edits the list or the timer: one of the five fields changes.
Mutate(edits) ==
    /\ client.events < MaxEvents
    /\ \E e \in edits :
          LET c1 == [client EXCEPT !.data[e.field] = e.value,
                                   !.events = @ + 1,
                                   !.burst = Min(@ + 1, 2),
                                   !.pristine = FALSE]
          IN  client' = [DebounceEffect(c1, c1.events)
                            EXCEPT !.last = Did("mutate", 0, FALSE, NoObject, 0)]
    /\ UNCHANGED <<store, clock, setups, req, resp, acct, procs, lib>>

\* handleSetup, offered while localStorage holds no sync state; a PIN of
\* another length than 4 is refused in the dialog.
ClientSetup(pins, salts, faults) ==
    /\ client.events < MaxEvents
    /\ client.stored = Null
    /\ setups < MaxSetups
    /\ \E pin \in pins, salt \in salts, fault \in faults :
          /\ Len(pin) = 4
          /\ \E alloc \in SetupAllocs(store, pin, FALSE) :
             \E r \in {SetupHandler(store, pin, client.data, alloc, salt, clock,
                                    "uuid-1", fault)} :
               /\ SetupServed(pin, client.data, alloc, fault, r, r.store)
               /\ LET c1 == [client EXCEPT !.events = @ + 1]
                      ss == [syncCode |-> r.body.syncCode,
                             authToken |-> r.body.authToken,
                             lastSyncedAt |-> clock]
                  IN  client' =
                        IF r.status # 200
                        THEN [c1 EXCEPT
                                !.last = Did("setup", 0, FALSE, NoObject, 0)]
                        ELSE [DebounceEffect(
                                 handleSyncData([c1 EXCEPT !.stored = <<ss>>,
                                                           !.pristine = FALSE],
                                                ss, client.data),
                                 c1.events)
                                EXCEPT !.last = Did("setup", 0, TRUE,
                                                    client.data, 0)]
    /\ UNCHANGED <<clock, procs, lib>>

\* handleLogin, offered while localStorage holds no sync state.
ClientLogin(codes, pins, faults) ==
    /\ client.events < MaxEvents
    /\ client.stored = Null
    /\ \E syncCode \in codes, pin \in pins, fault \in faults :
          /\ Len(pin) = 4
          /\ trim(syncCode) # NoString
          /\ \E r \in {LoginHandler(store, syncCode, pin, fault)} :
               /\ LoginServed(syncCode, pin, fault, r)
               /\ LET c1 == [client EXCEPT !.events = @ + 1]
                      ss == [syncCode |-> r.body.syncCode,
                             authToken |-> r.body.authToken,
                             lastSyncedAt |-> r.body.data.lastSyncedAt]
                  IN  client' =
                        IF r.status # 200
                        THEN [c1 EXCEPT
                                !.last = Did("login", 0, FALSE, NoObject, 0)]
                        ELSE [DebounceEffect(
                                 handleSyncData([c1 EXCEPT !.stored = <<ss>>,
                                                           !.pristine = TRUE],
                                                ss, r.body.data),
                                 c1.events)
                                EXCEPT !.last = Did("login", 0, TRUE,
                                                    r.body.data, 0)]
    /\ UNCHANGED <<clock, setups, acct, procs, lib>>

\* handleDisconnect, offered while localStorage holds a sync state: it
\* removes that and resets the dialog.
Disconnect ==
    /\ client.events < MaxEvents
    /\ client.stored # Null
    /\ client' = [client EXCEPT !.stored = Null, !.events = @ + 1,
                                !.last = Did("disconnect", 0, FALSE, NoObject, 0)]
    /\ UNCHANGED <<store, clock, setups, req, resp, acct, procs, lib>>

\* The page is loaded again: timers are gone, the lists and the timer come
\* back from localStorage, and the mount effect reads the sync state.
Reload ==
    /\ client.events < MaxEvents
    /\ LET c1 == [ClientInit EXCEPT !.stored = client.stored,
                                    !.syncState = client.stored,
                                    !.data = client.data,
                                    !.events = client.events + 1]
       IN  client' = [DebounceEffect(c1, c1.events)
                         EXCEPT !.last = Did("reload", 0, FALSE, NoObject, 0)]
    /\ UNCHANGED <<store, clock, setups, req, resp, acct, procs, lib>>

(***************************************************************************)
(* The functions of lib/sync.ts called on their own, on arguments of any   *)
(* length.  They keep no state, so one call is followed in a behaviour.    *)
(***************************************************************************)
\* hashPin on two pairs of PIN and salt, the first pair twice.
CallHashPin(pins, salts) ==
    /\ lib = NoCall
    /\ \E p1 \in pins, p2 \in pins, s1 \in salts, s2 \in salts :
          lib' = [fn |-> "hashPin",
                  args |-> [p1 |-> p1, s1 |-> s1, p2 |-> p2, s2 |-> s2],
                  out |-> [first |-> hashPin(p1, s1),
                           again |-> hashPin(p1, s1),
                           second |-> hashPin(p2, s2)]]
    /\ UNCHANGED <<store, clock, setups, req, resp, acct, procs, client>>

\* constantTimeCompare on two strings: what it returns and how many times
\* its loop body ran.
CallCompare(strings) ==
    /\ lib = NoCall
    /\ \E a \in strings, b \in strings :
          lib' = [fn |-> "constantTimeCompare",
                  args |-> [a |-> a, b |-> b],
                  out |-> [result |-> constantTimeCompare(a, b),
                           steps |-> IF Len(a) # Len(b) THEN 0
                                     ELSE CompareLoop(a, b, 1, 0, 0).steps]]
    /\ UNCHANGED <<store, clock, setups, req, resp, acct, procs, client>>

\* The two digests of an account, each presented where the other is
\* expected: the PIN hash to verifyAuthToken, the auth token to verifyPin.
CallVerify(pins, codes, salts) ==
    /\ lib = NoCall
    /\ \E pin \in pins, syncCode \in codes, salt \in salts :
          LET pinHash == hashPin(pin, salt)
              authToken == generateAuthToken(syncCode, salt)
          IN  lib' = [fn |-> "verify",
                      args |-> [pin |-> pin, syncCode |-> syncCode,
                                salt |-> salt],
                      out |-> [pinHash |-> pinHash,
                               authToken |-> authToken,
                               hashAsToken |->
                                  verifyAuthToken(pinHash, syncCode, salt),
                               tokenAsHash |->
                                  verifyPin(pin, salt, authToken)]]
    /\ UNCHANGED <<store, clock, setups, req, resp, acct, procs, client>>

(***************************************************************************)
(* Spec: every way a request can be accepted, rejected or fail, on few     *)
(* snapshots and the codes as issued.                                      *)
(***************************************************************************)
CoreCodes == {CodeA, CodeB, CodeUnknown, NoString}
CoreSetupPins == {Pin1234, <<"1","2","a","4">>, NoString}
CoreLoginPins == {Pin1234, Pin0000, NoString}
CoreSalts == {<<"u","1">>}
CoreTokens ==
    {NoString, generateAuthToken(CodeB, SaltB)}
        \cup {generateAuthToken(CodeA, s) : s \in CoreSalts}

\* The calls that can fail in each handler: put() in Setup, list() and
\* fetch() in Login and Pull, all three in Push.
SetupFaults == {"none", "put"}
ReadFaults == {"none", "list", "fetch"}
PushFaults == {"none", "list", "fetch", "put"}
\* The codes Pull and Push are given.
CoreDataCodes == CoreCodes \ {CodeB}

Next ==
    \/ Tick
    \/ Setup(CoreSetupPins, {SnapshotSynced}, CoreSalts, {"uuid-1"}, TRUE,
             SetupFaults)
    \/ Login(CoreCodes, CoreLoginPins, ReadFaults)
    \/ Pull(CoreDataCodes, CoreTokens, ReadFaults)
    \/ Push(CoreDataCodes, CoreTokens, {[todos |-> <<TodoY>>]}, PushFaults)

Spec == Init /\ [][Next]_vars

(***************************************************************************)
(* SpecData: accepted Pushes of every shape of body, one after another.    *)
(***************************************************************************)
TokenA == generateAuthToken(CodeA, <<"u","1">>)
TokenB == generateAuthToken(CodeB, SaltB)

\* The tokens of the two accounts: TokenB is not valid for CodeA.
DataTokens == {TokenA, TokenB}

NextData ==
    \/ Tick
    \/ Setup({Pin1234}, {SnapshotSynced}, CoreSalts, {"uuid-1"}, FALSE, {"none"})
    \/ Login({CodeA}, {Pin1234}, {"none"})
    \/ Pull({CodeA}, {TokenA}, {"none"})
    \/ Push({CodeA}, DataTokens, PushBodies, {"none"})

SpecData == Init /\ [][NextData]_vars

(***************************************************************************)
(* SpecSetup: Setup with every kind of existingData, then Login.           *)
(***************************************************************************)
AccountCodes == {CodeA, CodeB}
AccountPins == {Pin1234, Pin0000}
\* The token Setup returns for CodeA, for each salt it can draw.
TokensA == {generateAuthToken(CodeA, s) : s \in Salts}

NextSetup ==
    \/ Tick
    \/ Setup({Pin1234}, SetupInputs, Salts, {"uuid-1"}, FALSE, {"none"})
    \/ Login(AccountCodes, AccountPins, {"none"})
    \/ Pull({CodeA}, {NoString}, {"none"})
    \/ Push({CodeA}, TokensA, {[todos |-> <<TodoY>>]}, {"none"})

SpecSetup == Init /\ [][NextSetup]_vars

(***************************************************************************)
(* SpecCodes: the sync code typed in every spelling.                       *)
(***************************************************************************)
\* The code of the account Setup creates as a user may type it.
SpellingsA == Spellings(CodeA)
LoginSpellings == SpellingsA \cup {CodeB}
SpellingTokens == TokensA \cup {TokenB}

NextCodes ==
    \/ Tick
    \/ Setup(AccountPins, {SnapshotSynced}, Salts, {"uuid-1"}, FALSE,
             {"none"})
    \/ Login(LoginSpellings, AccountPins, {"none"})
    \/ Pull(SpellingsA, {NoString}, {"none"})
    \/ Push(SpellingsA, SpellingTokens, {[todos |-> <<TodoY>>]}, {"none"})

SpecCodes == Init /\ [][NextCodes]_vars


(***************************************************************************)
(* SpecConc: Setups that overlap, Pushes to one account that overlap.      *)
(***************************************************************************)
\* The bodies of the Pushes that overlap: each carries one field.
ConcBodies ==
    {[todos |-> <<TodoY>>], [timerState |-> <<TimerSynced>>]}

NextConc ==
    \/ Tick
    \/ SetupBegin({Pin1234}, {NoObject}, FALSE, {1})
    \/ SetupEnd(Salts, {"uuid-1"}, {"none"})
    \/ PushBegin({CodeB}, {TokenB}, ConcBodies)
    \/ PushStamp
    \/ PushEnd({"none"})

SpecConc == Init /\ [][NextConc]_vars

(***************************************************************************)
(* SpecClient: one device, and another device's Setup.                     *)
(***************************************************************************)
ClientEdits ==
    {[field |-> "todos", value |-> <<TodoY>>],
     [field |-> "timerState", value |-> <<TimerSynced>>]}

\* How a Push of the device can fail: the request does not reach the
\* server, or put() fails there.
ClientFaults == {"none", "network", "put"}

NextClient ==
    \/ AdvanceTime
    \/ Fire(ClientFaults)
    \/ Mutate(ClientEdits)
    \/ ClientSetup({Pin1234}, CoreSalts, {"none"})
    \/ ClientLogin({CodeB}, {Pin0000}, {"none"})
    \/ Disconnect
    \/ Reload

SpecClient == Init /\ [][NextClient]_vars

(***************************************************************************)
(* SpecFlight: one device that logs in and edits, its requests in flight   *)
(* while time passes.                                                      *)
(***************************************************************************)
FlightFaults == {"none", "network"}

NextFlight ==
    \/ AdvanceTime
    \/ SendPush
    \/ ReceivePush(FlightFaults)
    \/ Mutate({[field |-> "todos", value |-> <<TodoY>>]})
    \/ ClientLogin({CodeB}, {Pin0000}, {"none"})

SpecFlight == Init /\ [][NextFlight]_vars

(***************************************************************************)
(* SpecLib: hashPin, constantTimeCompare, verifyPin and verifyAuthToken on *)
(* PINs, salts and strings of several lengths, and a Push that presents    *)
(* the stored PIN hash as its token.                                       *)
(***************************************************************************)
Pin2345 == <<"2","3","4","5">>
LibPins == {<<"1","2","3">>, Pin1234, <<"1","2","3","4","5">>, Pin2345}
LibSalts == {<<"u","1">>, <<"4","u","1">>, <<"5","u">>}
\* A code generateSyncCode can return that ends in four digits.
CodeDigits ==
    SignalPrefix \o <<chars[1], chars[2], chars[25], chars[26], chars[27],
                      chars[28]>>
LibCodes == {CodeA, CodeB, CodeDigits}
LibStrings == UNION {[1..n -> {"a", "b"}] : n \in 0..MaxStrLen}

\* The x-auth-token of a Push to CodeB: the token, or the stored PIN hash.
LibTokens == {TokenB, hashPin(Pin0000, SaltB)}

NextLib ==
    \/ CallHashPin(LibPins, LibSalts)
    \/ CallCompare(LibStrings)
    \/ CallVerify(LibPins, LibCodes, LibSalts)
    \/ Push({CodeB}, LibTokens, {[todos |-> <<TodoY>>]}, {"none"})

SpecLib == Init /\ [][NextLib]_vars

(***************************************************************************)
(* The fields of documents and responses the properties speak of.          *)
(***************************************************************************)
\* The fields of a stored document that no response may carry.
SecretFields == {"pinHash", "salt"}
\* The top-level fields the responses of the four routes are built from.
ResponseFields ==
    {"success", "syncCode", "authToken", "data", "error", "lastSyncedAt"}
\* The credentials Setup and Login return.
CredentialFields == {"syncCode", "authToken"}
\* What the answer to an accepted Login carries beside the sync code.
LoginFields == {"authToken", "data"}
\* The codes of the form generateSyncCode returns.
WellFormedCodes == {CodeA, CodeB, CodeUnknown}

(***************************************************************************)
(* Properties.                                                             *)
(***************************************************************************)
\* The pathname the last request addressed; the account it addressed exists.
ReqPath == BlobPath(NormalizeCode(req.syncCode))
ReqKnown == req.syncCode # NoString /\ ReqPath \in DOMAIN store

ImmutableOf(doc) ==
    [syncCode |-> doc.syncCode, pinHash |-> doc.pinHash, salt |-> doc.salt,
     createdAt |-> doc.createdAt]

C5_LoginReturnsExistingData ==
    (req.op = "login" /\ resp.status = 200 /\ acct[ReqPath].pushes = 0) =>
        \A f \in DOMAIN acct[ReqPath].input :
            resp.body.data[f] = acct[ReqPath].input[f]

C2_RejectedPushChangesNothing ==
    [][req'.op = "push" =>
         /\ resp'.status \in {200, 400, 401, 404, 500}
         /\ resp'.status # 200 => store' = store
         /\ resp'.status = 200 =>
              LET path == BlobPath(NormalizeCode(req'.syncCode))
              IN  /\ DataOf(store'[path]) = acct'[path].expect
                  /\ store'[path].lastSyncedAt = resp'.body.lastSyncedAt
                  /\ \A p \in DOMAIN store \ {path} : store'[p] = store[p]]_vars

\* A Push with a valid token whose put() failed has been answered with 500.
C2_Witness ==
    /\ req.op = "push" /\ req.fault = "put" /\ resp.status = 500
    /\ ReqKnown /\ req.token = acct[ReqPath].token

\* C3 (as claimed): a Pull is answered with the snapshot only when it carries
\* the auth token derived from the account's sync code and salt.
C3_PullRequiresToken ==
    (req.op = "pull" /\ resp.status = 200) =>
        /\ req.token # NoString
        /\ verifyAuthToken(req.token, NormalizeCode(req.syncCode),
                           store[ReqPath].salt)

C6_LoginReadOnly ==
    [][req'.op = "login" =>
         /\ store' = store
         /\ (/\ req.op = "login" /\ resp.status = 200 /\ resp'.status = 200
             /\ NormalizeCode(req'.syncCode) = NormalizeCode(req.syncCode)) =>
                resp'.body.data.lastSyncedAt = resp.body.data.lastSyncedAt]_vars

\* A Login was accepted for an account that has taken a Push.
C6_Witness ==
    /\ req.op = "login" /\ resp.status = 200
    /\ acct[ReqPath].pushes > 0
    /\ resp.body.data.lastSyncedAt > acct[ReqPath].createdAt

\* C7: no response has a pinHash or salt field, at the top level or in its
\* data, and the credentials it does carry (syncCode, authToken) are no
\* stored pinHash or salt.
C7_NoSecretInResponse ==
    LET secrets == {store[p].pinHash : p \in DOMAIN store}
                      \cup {store[p].salt : p \in DOMAIN store}
        fields == DOMAIN resp.body
    IN  /\ fields \cap SecretFields = {}
        /\ fields \subseteq ResponseFields \cup DataFields
        /\ "data" \in fields =>
              DOMAIN resp.body.data = DataFields \cup {"lastSyncedAt"}
        /\ \A f \in fields \cap CredentialFields :
              resp.body[f] \notin secrets

\* A Pull has been answered with a snapshot.
C7_Witness ==
    /\ req.op = "pull" /\ resp.status = 200
    /\ DataFields \subseteq DOMAIN resp.body

\* C8: every stored document keeps the syncCode, pinHash, salt and createdAt
\* its Setup wrote, and no Login, Pull or Push step changes them or removes
\* a document.
C8_ImmutableFields ==
    /\ [](\A p \in DOMAIN store :
            /\ BlobPath(store[p].syncCode) = p
            /\ store[p].pinHash = hashPin(acct[p].pin, store[p].salt)
            /\ generateAuthToken(store[p].syncCode, store[p].salt) = acct[p].token
            /\ store[p].createdAt = acct[p].createdAt)
    /\ [][req'.op \in {"login", "pull", "push"} =>
            \A p \in DOMAIN store :
                /\ p \in DOMAIN store'
                /\ ImmutableOf(store'[p]) = ImmutableOf(store[p])]_vars

\* A Push was accepted after the account's creation time.
C8_Witness ==
    /\ req.op = "push" /\ resp.status = 200
    /\ store[ReqPath].lastSyncedAt > store[ReqPath].createdAt

\* C10 (as claimed): the code under which a successful Setup writes its
\* document is not a code the store held when the Setup ran.
C10_SetupCodeIsFresh ==
    [][(req'.op = "setup" /\ resp'.status = 200 /\ setups' = setups + 1) =>
          BlobPath(resp'.body.syncCode) \notin DOMAIN store]_vars

\* C11: a Setup whose every candidate collided (its last head() found the
\* candidate, so the loop never left early) has made exactly maxAttempts
\* attempts, is answered 500 with the allocation error and leaves the store
\* as it was.
C11_ExhaustedAfterTen ==
    [][(req'.op = "setup" /\ ~InvalidPin(req'.pin) /\ req'.head = "found") =>
          /\ req'.attempts = maxAttempts
          /\ resp'.status = 500
          /\ resp'.body = [error |-> "Failed to generate unique sync code"]
          /\ store' = store]_vars

\* A Setup has drawn maxAttempts candidates, found every one and failed.
C11_Witness ==
    /\ req.op = "setup" /\ req.pin = Pin1234 /\ req.head = "found"
    /\ req.attempts = maxAttempts /\ resp.status = 500

\* C12 (as claimed): a Setup whose last candidate, the k-th for any k from 1
\* to maxAttempts, was free is answered 200 and has written the account.
C12_FirstFreeCandidate ==
    (/\ req.op = "setup" /\ ~InvalidPin(req.pin) /\ req.fault = "none"
     /\ req.head = "notfound" /\ req.attempts \in 1..maxAttempts) =>
        /\ resp.status = 200
        /\ BlobPath(resp.body.syncCode) \in DOMAIN store

\* C15: an accepted Push that repeats the accepted Push before it (same
\* code, token and body) leaves every data field and every immutable field
\* of the document, and every other document, as the first left them.
C15_PushIdempotent ==
    [][(req'.op = "push" /\ resp'.status = 200 /\ req'.again) =>
          LET path == BlobPath(NormalizeCode(req'.syncCode))
          IN  /\ DataOf(store'[path]) = DataOf(store[path])
              /\ ImmutableOf(store'[path]) = ImmutableOf(store[path])
              /\ \A p \in DOMAIN store \ {path} : store'[p] = store[p]]_vars

\* A Push of all five fields has been accepted twice in a row, the second
\* time at a later instant.
C15_Witness ==
    /\ req.op = "push" /\ resp.status = 200 /\ req.again
    /\ req.body = FullBody
    /\ resp.body.lastSyncedAt = MaxTime
    /\ DataOf(store[ReqPath]) = FullBody

\* C20: a Setup with a malformed PIN is answered 400 having drawn and
\* checked no candidate; a Login without code or PIN is answered 400; a Push
\* without code is answered 400 and without token 401; all of them whatever
\* the store holds and whether or not it would have failed, and the store
\* is left as it was.  Malformed is every PIN but four ASCII digits.
C20_ValidationFirst ==
    /\ [](/\ (req.op = "setup" /\ InvalidPin(req.pin)) =>
               (resp.status = 400 /\ req.attempts = 0 /\ req.head = "none")
          /\ (req.op = "login"
                  /\ (req.syncCode = NoString \/ req.pin = NoString)) =>
               (resp.status = 400)
          /\ (req.op = "push" /\ req.syncCode = NoString) =>
               (resp.status = 400)
          /\ (req.op = "push" /\ req.syncCode # NoString
                  /\ req.token = NoString) =>
               (resp.status = 401)
          /\ \A pin \in InputPins :
               InvalidPin(pin) <=> pin \notin {Pin1234, Pin0000})
    /\ [][(\/ (req'.op = "setup" /\ InvalidPin(req'.pin))
           \/ (req'.op = "login"
                  /\ (req'.syncCode = NoString \/ req'.pin = NoString))
           \/ (req'.op = "push"
                  /\ (req'.syncCode = NoString \/ req'.token = NoString)))
              => store' = store]_vars

\* A Push without token was answered 401 although list() would have thrown.
C20_Witness ==
    /\ req.op = "push" /\ req.syncCode = CodeA /\ req.token = NoString
    /\ req.fault = "list" /\ resp.status = 401

\* C13 (as claimed): under every interleaving, the code under which a Setup
\* writes its document when it succeeds is a code no other Setup has
\* written: the store holds no document under it at that moment.
C13_NoSetupOverwrites ==
    [][\A p \in Slots :
          (procs[p].op = "setup" /\ procs'[p] = Idle /\ resp'.status = 200) =>
              BlobPath(resp'.body.syncCode) \notin DOMAIN store]_vars

\* C14 (as claimed): when the write of an accepted Push lands, every field
\* the Push supplied takes its value and every field it omitted keeps the
\* value the store holds at that moment, written by whichever Push landed
\* before.
C14_OverlapKeepsOmittedFields ==
    [][\A p \in Slots :
          (procs[p].op = "push" /\ procs'[p] = Idle /\ resp'.status = 200) =>
              LET path == BlobPath(NormalizeCode(procs[p].syncCode))
              IN  \A f \in DataFields :
                      store'[path][f] = IF f \in DOMAIN procs[p].body
                                        THEN procs[p].body[f]
                                        ELSE store[path][f]]_vars


PushStep == client' # client /\ client'.last.step \in {"debounce", "retry"}

DebounceTimers(c) == {t \in c.timers : t.kind = "debounce"}

\* C16: while the device holds no local sync credentials (none stored yet,
\* or removed by Disconnect), no step starts a debounce timer and no step
\* is a Push attempt, whatever the user edits.
C16_OfflineWithoutCredentials ==
    [][(client.stored = Null /\ client'.stored = Null)
          => /\ {t.id : t \in DebounceTimers(client')}
                   \subseteq {t.id : t \in DebounceTimers(client)}
             /\ ~PushStep]_vars

\* C17: at most one debounce timer is pending; with credentials present a
\* mutation leaves exactly one debounce timer, set to 1000 ms and holding
\* the state after the mutation; the Push a debounce timer triggers
\* carries the local state as it is after the last mutation, and leaves no
\* debounce timer pending.
C17_DebounceRestartsOnMutation ==
    /\ [](Cardinality(DebounceTimers(client)) <= 1)
    /\ [][/\ (client' # client /\ client'.last.step = "mutate"
                /\ client.stored # Null)
               => \E t \in client'.timers :
                     /\ DebounceTimers(client') = {t}
                     /\ t.left = 1000
                     /\ t.body = client'.data
                     /\ t \notin client.timers
           /\ (client' # client /\ client'.last.step = "debounce"
                /\ client.stored # Null)
               => (/\ client'.last.handed = client.data
                   /\ DebounceTimers(client') = {})]_vars

\* C17 witness: with credentials present, a debounce timer has fired after
\* a burst of two mutations.
C17_Witness ==
    /\ client.stored # Null
    /\ client.last.step = "debounce"
    /\ client.last.burst >= 2

\* C18: a failed Push attempt number n <= 3 (n = 0 for the debounced one)
\* schedules exactly one retry, after 1000, 2000 or 4000 ms, of the same
\* request, whatever the failure was; the failure of the third retry sets
\* the sync error and schedules nothing; a successful attempt schedules
\* nothing and leaves no sync error.
C18_RetryWithBackoff ==
    [][PushStep =>
         LET n == client'.last.retryCount
             new == client'.timers \ client.timers
         IN  /\ client'.last.ok => (new = {} /\ client'.syncError = Null)
             /\ (~client'.last.ok /\ n < 3)
                   => \E t \in new :
                         /\ new = {t}
                         /\ t.kind = "retry"
                         /\ t.left = (CASE n = 0 -> 1000 [] n = 1 -> 2000
                                         [] n = 2 -> 4000)
                         /\ t.retryCount = n + 1
                         /\ t.body = client'.last.handed
             /\ (~client'.last.ok /\ n >= 3)
                   => (new = {} /\ client'.syncError # Null)]_vars

\* C18 witness: the third retry has failed, the sync error is set and no
\* timer is pending.
C18_Witness ==
    /\ client.last.step = "retry"
    /\ client.last.retryCount = 3
    /\ ~client.last.ok
    /\ client.syncError # Null
    /\ client.timers = {}

\* C19: a successful Login or Setup leaves every one of the five
\* synchronized fields equal to the snapshot handed to the to-do list.
C19_RemoteWins ==
    [][(client' # client /\ client'.last.step \in {"login", "setup"}
        /\ client'.last.ok)
          => \A f \in DataFields :
                client'.data[f] = client'.last.handed[f]]_vars

\* C23: the status of the answer follows the taxonomy for Login, Pull and
\* Push: a request with well-formed input whose list() fails gets 500, one
\* for an unknown sync code gets 404, 404 is given only for an unknown sync
\* code, and one whose code exists but whose document cannot be fetched
\* gets 500; a Push or Setup whose put() fails gets 500.
C23_StatusTaxonomy ==
    LET wellFormed ==
            CASE req.op = "login" -> req.syncCode # NoString /\ req.pin # NoString
              [] req.op = "pull" -> req.syncCode # NoString
              [] req.op = "push" -> req.syncCode # NoString /\ req.token # NoString
              [] OTHER -> FALSE
    IN  /\ wellFormed =>
              /\ req.fault = "list" => resp.status = 500
              /\ (req.fault # "list" /\ ~ReqKnown) => resp.status = 404
              /\ resp.status = 404 => ~ReqKnown
              /\ (req.fault = "fetch" /\ ReqKnown) => resp.status = 500
              /\ (req.op = "push" /\ req.fault = "put" /\ ReqKnown
                    /\ verifyAuthToken(req.token, NormalizeCode(req.syncCode),
                                       store[ReqPath].salt))
                   => resp.status = 500
        /\ (req.op = "setup" /\ req.fault = "put")
              => resp.status \in {400, 500}

\* C24: normalising a spelling of a code (as issued, lower case, surrounded
\* by whitespace, without the prefix) gives the code, and normalising again
\* changes nothing; a Login, Pull or Push that gives a spelling of an
\* account's code is never answered 404 and addresses that account's
\* document: Login returns the code as issued with that document's
\* snapshot, Pull returns that snapshot, an accepted Push has written that
\* document.
C24_SpellingsAddressOneAccount ==
    /\ \A c \in WellFormedCodes : \A typed \in Spellings(c) :
          /\ NormalizeCode(typed) = c
          /\ NormalizeCode(NormalizeCode(typed)) = NormalizeCode(typed)
          /\ NormalizeCode(toLowerCase(typed)) = NormalizeCode(toUpperCase(typed))
    /\ \A p \in DOMAIN store : \A typed \in Spellings(store[p].syncCode) :
          (req.syncCode = typed /\ req.op \in {"login", "pull", "push"}) =>
              /\ ReqPath = p
              /\ resp.status # 404
              /\ (req.op = "login" /\ resp.status = 200) =>
                    /\ resp.body.syncCode = store[p].syncCode
                    /\ resp.body.data = Snapshot(store[p])
              /\ (req.op = "pull" /\ resp.status = 200) =>
                    resp.body = Snapshot(store[p])
              /\ (req.op = "push" /\ resp.status = 200) =>
                    /\ store[p].lastSyncedAt = resp.body.lastSyncedAt
                    /\ store[p].todos = req.body.todos

\* C24 witness: a Login that gave the code of an account in lower case was
\* answered with the code as issued.
C24_Witness ==
    /\ req.op = "login" /\ resp.status = 200
    /\ req.syncCode = toLowerCase(CodeA)
    /\ resp.body.syncCode = CodeA

C21_HashPinInputSensitive ==
    lib.fn = "hashPin" =>
        /\ lib.out.first = lib.out.again
        /\ (lib.args.p1 # lib.args.p2 \/ lib.args.s1 # lib.args.s2)
              => lib.out.first # lib.out.second

\* C22: constantTimeCompare returns a boolean, TRUE exactly when the two
\* strings are equal; on strings of equal length its loop body runs once
\* per character position wherever they differ, and on strings of
\* different lengths it returns FALSE.
C22_CompareExaminesEveryPosition ==
    lib.fn = "constantTimeCompare" =>
        LET a == lib.args.a
            b == lib.args.b
        IN  /\ lib.out.result \in BOOLEAN
            /\ lib.out.result <=> (a = b)
            /\ Len(a) = Len(b) => lib.out.steps = Len(a)
            /\ Len(a) # Len(b) => ~lib.out.result

\* C22 witness: two strings of the greatest length that differ in their
\* first character were compared in as many steps as they have characters.
C22_Witness ==
    /\ lib.fn = "constantTimeCompare"
    /\ Len(lib.args.a) = MaxStrLen /\ Len(lib.args.b) = MaxStrLen
    /\ lib.args.a[1] # lib.args.b[1]
    /\ lib.args.a[MaxStrLen] = lib.args.b[MaxStrLen]
    /\ lib.out.steps = MaxStrLen
    /\ ~lib.out.result

\* C27: for a PIN Setup accepts, the PIN hash and the auth token of an
\* account differ, verifyAuthToken rejects the PIN hash and verifyPin
\* rejects the auth token as stored hash; a Push that presents the stored
\* pinHash of the account as its token is answered 401.
C27_DigestsDomainSeparated ==
    /\ (lib.fn = "verify" /\ ~InvalidPin(lib.args.pin)) =>
          /\ lib.out.pinHash # lib.out.authToken
          /\ ~lib.out.hashAsToken
          /\ ~lib.out.tokenAsHash
    /\ (req.op = "push" /\ ReqKnown /\ req.token = store[ReqPath].pinHash)
          => resp.status = 401

\* C27 witness: the digests of PIN 2345 and of a code ending in 2345 were
\* told apart, and a Push presenting the stored pinHash was rejected.
C27_Witness ==
    /\ lib.fn = "verify"
    /\ lib.args.pin = Pin2345 /\ lib.args.syncCode = CodeDigits
    /\ ~lib.out.hashAsToken /\ ~lib.out.tokenAsHash
    /\ req.op = "push" /\ req.token = store[ReqPath].pinHash
    /\ resp.status = 401

\* C28: the lastSyncedAt of a stored document is never smaller than its
\* createdAt and never decreases, whether requests overlap or not; a
\* document a Setup has just written has both equal; when the write of an
\* accepted Push lands, lastSyncedAt is the timestamp returned to that
\* Push's caller.
C28_LastSyncedAtMonotone ==
    /\ [](\A path \in DOMAIN store :
             store[path].lastSyncedAt >= store[path].createdAt)
    /\ [][/\ \A path \in DOMAIN store :
                store'[path].lastSyncedAt >= store[path].lastSyncedAt
          /\ \A p \in Slots :
                /\ (procs[p].op = "setup" /\ procs'[p] = Idle
                    /\ resp'.status = 200) =>
                      LET doc == store'[BlobPath(resp'.body.syncCode)]
                      IN  doc.lastSyncedAt = doc.createdAt
                /\ (procs[p].op = "push" /\ procs'[p] = Idle
                    /\ resp'.status = 200) =>
                      store'[BlobPath(NormalizeCode(procs[p].syncCode))]
                            .lastSyncedAt = resp'.body.lastSyncedAt]_vars

RetryTimers(c) == {t \in c.timers : t.kind = "retry"}

\* C25: with credentials present, a mutation made while a Push is in flight
\* or a retry is scheduled is accepted: the requests in flight stay in
\* flight, every scheduled retry stays scheduled with the delay it had left,
\* and a debounce timer of 1000 ms holding the state after the mutation is
\* newly set, so that a second chain of attempts can start beside the first.
C25_MutationDuringPush ==
    [][(client' # client /\ client'.last.step = "mutate"
          /\ client.syncState # Null)
         => /\ client'.inflight = client.inflight
            /\ RetryTimers(client') = RetryTimers(client)
            /\ \E t \in DebounceTimers(client') :
                  /\ t.left = DebounceMs
                  /\ t.body = client'.data
                  /\ t \notin client.timers]_vars

\* C25 witness: after a mutation, retries of two different chains are
\* scheduled at the same time.
C25_Witness ==
    /\ client.events >= 1
    /\ \E t1, t2 \in RetryTimers(client) : t1.id # t2.id

\* C29: whenever the device holds credentials, has no timer pending and no
\* request in flight, and the last request it completed was a Push that
\* succeeded, the five data fields of the remote document equal the
\* device's local state: no retry of an older failed Push has overwritten
\* a newer Push with an older snapshot.
C29_QuiescentConvergence ==
    (/\ client.stored # Null
     /\ client.syncState # Null
     /\ client.timers = {}
     /\ client.inflight = {}
     /\ client.last.step \in {"debounce", "retry"}
     /\ client.last.ok)
        => DataOf(store[BlobPath(client.syncState[1].syncCode)]) = client.data

\* C30: from a successful Login until the user's first edit the device
\* sends no Push, and the remote document stays as the Login found it.
C30_LoginAloneSendsNoPush ==
    [][client.pristine
          => /\ store' = store
             /\ ~(client' # client /\ client'.last.step = "send")]_vars

=============================================================================
